---------------------------- MODULE Spec2Model ----------------------------
(***************************************************************************)
(* A model of aapns' single-connection HTTP/2 multiplexer                  *)
(* (src/simple.py): the Connection object with its stream table, the       *)
(* background reader and writer tasks, any number of post callers and the  *)
(* owning scope's exit.  All tasks run on one event loop, so every action  *)
(* below is the code one task runs between two suspension points.          *)
(*                                                                         *)
(* The h2 codec is an external library; what the model keeps of it is the  *)
(* state simple.py reads or drives: the next stream identifier, the        *)
(* per-stream state that open_outbound_streams counts, the outbound        *)
(* connection window, the peer's initial stream window and the queue of    *)
(* frames waiting for data_to_send().                                      *)
(***************************************************************************)
EXTENDS Integers, Sequences, FiniteSets, TLC

\* ------------------------------------------------------------------ bounds
NumPosts == 2          \* post callers
MaxTime == 1           \* the monotonic clock runs 0..MaxTime
MaxChunk == 2          \* events one read() of the reader may carry
MaxData == 1           \* DataReceived events the peer sends per stream
MaxReads == 2          \* reads of the reader that return bytes
PriorPosts == 11       \* full-size posts completed before the modelled run
WindowCap == 10000     \* the peer's WINDOW_UPDATEs do not raise the window past this

\* --------------------------------------------------------- program constants
MAX_NOTIFICATION_PAYLOAD_SIZE == 5120
REQUIRED_FREE_SPACE == 6000
DefaultMaxConcurrentStreams == 100
\* h2's initial flow-control window (connection and stream), RFC 7540 6.9.2
DefaultWindow == 65535
\* h2's H2Connection.HIGHEST_ALLOWED_STREAM_ID, 2^31 - 1
HIGHEST_ALLOWED_STREAM_ID == 2147483647

Posts == 1..NumPosts
\* math.inf: a deadline no clock value reaches
Inf == MaxTime + 1
Deadlines == {0, Inf}
BodyLens == {MAX_NOTIFICATION_PAYLOAD_SIZE}
\* stream windows the peer may advertise (SETTINGS_INITIAL_WINDOW_SIZE)
PeerInitialWindows == {1000}
PeerMaxStreams == {1}
\* data chunks of a response body: 1 is a JSON digit, 0 is a byte that is not JSON
Tokens == {0, 1}
WindowIncrement == MAX_NOTIFICATION_PAYLOAD_SIZE

VARIABLES
    closing,                 \* Connection.closing
    closed,                  \* Connection.closed
    max_concurrent_streams,  \* Connection.max_concurrent_streams
    channels,                \* Connection.channels: sid -> Channel
    highest_outbound_stream_id, \* codec: the last stream identifier handed out
    streams,                 \* codec: sid -> state of every stream it knows
    window,                  \* codec: outbound_flow_control_window
    peer_initial_window,     \* codec: remote SETTINGS_INITIAL_WINDOW_SIZE
    outq,                    \* codec: frames of post waiting for data_to_send()
    terminated,              \* codec: the connection is CLOSED for h2 (the peer's GOAWAY
                             \* was received, or h2 gave up on a protocol error)
    please_write,            \* Connection.please_write (asyncio.Event)
    reader_pc,               \* background_read: reading, returned, dead, cancelled
    writer_pc,               \* background_write: draining, waiting, returned, dead, cancelled
    exit_pc,                 \* __aexit__: open, await_bgw, await_bgr, await_closed, done
    clock,                   \* time.monotonic()
    reads,                   \* reads of the reader that returned bytes so far
    post                     \* per caller: the post call's position, request and result

vars == <<closing, closed, max_concurrent_streams, channels, highest_outbound_stream_id, streams,
          window, peer_initial_window, outq, please_write, reader_pc, writer_pc,
          exit_pc, clock, reads, post, terminated>>


\* ------------------------------------------------------------------ data
EmptyMap == [s \in {} |-> 0]

\* Channel(sid, None, []): fut None, no events, header None (-1), empty body
Channel(sid) == [sid |-> sid, fut |-> "none", ev |-> <<>>, header |-> -1, body |-> <<>>]

Event(type, sid, val, aux) == [type |-> type, sid |-> sid, val |-> val, aux |-> aux]

\* what the codec keeps of a stream: whether END_STREAM was sent, and how far
\* the peer's response got (none, headers, ended, reset)
NewStream == [sent_end |-> FALSE, rcv |-> "none", ndata |-> 0]

\* h2 counts a stream as open until both sides ended it or it was reset
StreamOpen(st) == st.rcv # "reset" /\ ~(st.sent_end /\ st.rcv = "ended")

open_outbound_streams == Cardinality({s \in DOMAIN streams : StreamOpen(streams[s])})

Remove(f, k) == [x \in (DOMAIN f) \ {k} |-> f[x]]

\* ------------------------------------------------------------ Connection.blocked
blocked_without_window ==
    \/ closing
    \/ closed
    \/ open_outbound_streams >= max_concurrent_streams

blocked_without_stream_count ==
    \/ closing
    \/ closed
    \/ window <= REQUIRED_FREE_SPACE

blocked_without_reserve ==
    \/ closing
    \/ closed
    \/ window <= 0
    \/ open_outbound_streams >= max_concurrent_streams

blocked ==
    \/ closing
    \/ closed
    \/ window <= REQUIRED_FREE_SPACE
    \/ open_outbound_streams >= max_concurrent_streams

\* ------------------------------------------------------------------ post
DeadlinePassedLate(now, deadline) == now > deadline + 1

\* `now > req.deadline`, the test of lines 197 and 225
DeadlinePassed(now, deadline) == now > deadline

IdlePost == [pc |-> "idle", deadline |-> 0, sid |-> 0, outcome |-> "none",
             body |-> <<>>, delivered |-> <<>>]

\* post ends: the caller gets `outcome`
Finish(p, outcome) == [post EXCEPT ![p].pc = "done", ![p].outcome = outcome]

\* A connection that is open and idle after earlier posts that all ended with
\* their responses: either PriorPosts of them, or so many that the last stream
\* identifier has been handed out.  The window is what PriorPosts bodies the
\* peer has not credited back leave of it.
Init ==
    /\ closing = FALSE
    /\ closed = FALSE
    /\ max_concurrent_streams = DefaultMaxConcurrentStreams
    /\ channels = EmptyMap
    /\ streams = EmptyMap
    /\ peer_initial_window = DefaultWindow
    /\ highest_outbound_stream_id \in {2 * PriorPosts - 1, HIGHEST_ALLOWED_STREAM_ID}
    /\ window = DefaultWindow - PriorPosts * MAX_NOTIFICATION_PAYLOAD_SIZE
    /\ outq = <<>>
    /\ please_write = FALSE
    /\ writer_pc = "waiting"
    /\ reads = 0
    /\ terminated = FALSE
    /\ reader_pc = "reading"
    /\ exit_pc = "open"
    /\ clock = 0
    /\ post = [p \in Posts |-> IdlePost]

\* get_next_available_stream_id(): two past the last one, or
\* NoAvailableStreamIDError once that would pass HIGHEST_ALLOWED_STREAM_ID
NoAvailableStreamID == highest_outbound_stream_id > HIGHEST_ALLOWED_STREAM_ID - 2
next_sid == highest_outbound_stream_id + 2

\* send_data: h2 refuses a body larger than the stream's or the connection's window
SendDataRaises(n) == n > peer_initial_window \/ n > window

\* lines 193-221: from the call to the first suspension (or to the failure)
PostCall(p, d, n) ==
    /\ post[p].pc = "idle"
    /\ \A q \in Posts : q < p => post[q].pc # "idle"
    /\ n <= MAX_NOTIFICATION_PAYLOAD_SIZE
    /\ LET sid == next_sid
           req == [post EXCEPT ![p].deadline = d]
       IN
       IF DeadlinePassed(clock, d) THEN
           /\ post' = [req EXCEPT ![p].pc = "done", ![p].outcome = "Timeout"]
           /\ UNCHANGED <<channels, highest_outbound_stream_id, streams, window, outq, please_write>>
       ELSE IF blocked THEN
           /\ post' = [req EXCEPT ![p].pc = "done", ![p].outcome = "Blocked"]
           /\ UNCHANGED <<channels, highest_outbound_stream_id, streams, window, outq, please_write>>
       ELSE IF NoAvailableStreamID THEN
           \* lines 204-207: Closed is raised, nothing else is done
           /\ post' = [req EXCEPT ![p].pc = "done", ![p].outcome = "Closed"]
           /\ UNCHANGED <<channels, highest_outbound_stream_id, streams, window, outq, please_write>>
       ELSE IF sid \in DOMAIN channels THEN
           \* line 209: the assertion fails
           /\ post' = [req EXCEPT ![p].pc = "done", ![p].outcome = "AssertionError"]
           /\ UNCHANGED <<channels, highest_outbound_stream_id, streams, window, outq, please_write>>
       ELSE IF terminated THEN
           \* line 212: h2 refuses send_headers on a closed connection before it
           \* creates the stream, so the identifier is not used up; the record
           \* of line 211 stays
           /\ channels' = (sid :> Channel(sid)) @@ channels
           /\ post' = [req EXCEPT ![p].pc = "done", ![p].outcome = "ProtocolError", ![p].sid = sid]
           /\ UNCHANGED <<highest_outbound_stream_id, streams, window, outq, please_write>>
       ELSE IF SendDataRaises(n) THEN
           \* the record of line 211 stays: lines 212-214 are outside the try
           /\ channels' = (sid :> Channel(sid)) @@ channels
           /\ streams' = (sid :> NewStream) @@ streams
           /\ highest_outbound_stream_id' = sid
           /\ outq' = outq \o <<"HEADERS", "WINDOW_UPDATE">>
           /\ post' = [req EXCEPT ![p].pc = "done", ![p].outcome = "Error", ![p].sid = sid]
           /\ UNCHANGED <<window, please_write>>
       ELSE
           /\ channels' = (sid :> [Channel(sid) EXCEPT !.fut = "pending"]) @@ channels
           /\ streams' = (sid :> [NewStream EXCEPT !.sent_end = TRUE]) @@ streams
           /\ highest_outbound_stream_id' = sid
           /\ window' = window - n
           /\ outq' = outq \o <<"HEADERS", "WINDOW_UPDATE", "DATA">>
           /\ please_write' = TRUE
           /\ post' = [req EXCEPT ![p].pc = "waiting", ![p].sid = sid]
    /\ UNCHANGED <<closing, closed, max_concurrent_streams, peer_initial_window,
                   reader_pc, writer_pc, exit_pc, clock, reads, terminated>>

\* the `for event in ch.ev` loop of lines 227-233 over the whole buffer, starting
\* from the record's header and body: the result at StreamEnded, or at the end
RECURSIVE DrainEvents(_, _, _)
DrainEvents(evs, header, body) ==
    IF evs = <<>> THEN [ended |-> FALSE, header |-> header, body |-> body]
    ELSE LET e == Head(evs) IN
         IF e.type = "ResponseReceived" THEN DrainEvents(Tail(evs), e.val, body)
         ELSE IF e.type = "DataReceived" THEN DrainEvents(Tail(evs), header, Append(body, e.val))
         ELSE IF e.type = "StreamEnded" THEN [ended |-> TRUE, header |-> header, body |-> body]
         ELSE DrainEvents(Tail(evs), header, body)

\* the data of the DataReceived events of a buffer, in order
RECURSIVE DataOf(_)
DataOf(evs) ==
    IF evs = <<>> THEN <<>>
    ELSE IF Head(evs).type = "DataReceived" THEN <<Head(evs).val>> \o DataOf(Tail(evs))
    ELSE DataOf(Tail(evs))

\* json.loads accepts the body: a non-empty run of digits is a JSON number
IsJSON(body) == \A i \in 1..Len(body) : body[i] = 1

\* Response.new: FormatError for a non-empty body that is not JSON
ResponseOutcome(body) == IF body = <<>> \/ IsJSON(body) THEN "Response" ELSE "FormatError"

PostResumeIgnoresClosing(p) ==
    /\ post[p].pc = "waiting"
    /\ LET sid == post[p].sid
           ch == channels[sid]
           r == DrainEvents(ch.ev, ch.header, ch.body)
       IN
       /\ ch.fut \in {"result", "exception"}
       /\ IF ch.fut = "exception" THEN
              /\ post' = Finish(p, "Closed")
              /\ channels' = Remove(channels, sid)
          ELSE IF DeadlinePassed(clock, post[p].deadline) THEN
              /\ post' = Finish(p, "Timeout")
              /\ channels' = Remove(channels, sid)
          ELSE IF r.ended THEN
              /\ post' = [post EXCEPT ![p].pc = "done",
                                      ![p].outcome = ResponseOutcome(r.body),
                                      ![p].body = r.body,
                                      ![p].delivered = DataOf(ch.ev)]
              /\ channels' = Remove(channels, sid)
          ELSE
              /\ channels' = [channels EXCEPT ![sid].fut = "pending",
                                              ![sid].header = r.header,
                                              ![sid].body = r.body]
              /\ UNCHANGED post
    /\ UNCHANGED <<closing, closed, max_concurrent_streams, highest_outbound_stream_id,
                   streams, window, peer_initial_window, outq, please_write, reader_pc,
                   writer_pc, exit_pc, clock, reads, terminated>>

\* lines 221-237 after the waiter fired: the wait_for returns or raises, the
\* deadline is tested, the buffer is read, and post returns, fails or waits again
PostResume(p) ==
    /\ post[p].pc = "waiting"
    /\ LET sid == post[p].sid
           ch == channels[sid]
           r == DrainEvents(ch.ev, ch.header, ch.body)
       IN
       /\ ch.fut \in {"result", "exception"}
       /\ IF ch.fut = "exception" THEN
              /\ post' = Finish(p, "Closed")
              /\ channels' = Remove(channels, sid)
          ELSE IF DeadlinePassed(clock, post[p].deadline) THEN
              /\ post' = Finish(p, "Timeout")
              /\ channels' = Remove(channels, sid)
          ELSE IF r.ended THEN
              /\ post' = [post EXCEPT ![p].pc = "done",
                                      ![p].outcome = ResponseOutcome(r.body),
                                      ![p].body = r.body,
                                      ![p].delivered = DataOf(ch.ev)]
              /\ channels' = Remove(channels, sid)
          ELSE IF closing THEN
              /\ post' = Finish(p, "Closed")
              /\ channels' = Remove(channels, sid)
          ELSE
              /\ channels' = [channels EXCEPT ![sid].fut = "pending",
                                              ![sid].header = r.header,
                                              ![sid].body = r.body]
              /\ UNCHANGED post
    /\ UNCHANGED <<closing, closed, max_concurrent_streams, highest_outbound_stream_id, streams, window,
                   peer_initial_window, outq, please_write, reader_pc, writer_pc,
                   exit_pc, clock, reads, terminated>>

PostTimeoutKeepsRecord(p) ==
    /\ post[p].pc = "waiting"
    /\ channels[post[p].sid].fut = "pending"
    /\ DeadlinePassed(clock, post[p].deadline)
    /\ post' = Finish(p, "Timeout")
    /\ UNCHANGED <<closing, closed, max_concurrent_streams, channels,
                   highest_outbound_stream_id, streams, window,
                   peer_initial_window, outq, please_write, reader_pc, writer_pc,
                   exit_pc, clock, reads, terminated>>

\* lines 221-226: the wait_for timer fires with the waiter still pending
PostTimeout(p) ==
    /\ post[p].pc = "waiting"
    /\ channels[post[p].sid].fut = "pending"
    /\ DeadlinePassed(clock, post[p].deadline)
    /\ post' = Finish(p, "Timeout")
    /\ channels' = Remove(channels, post[p].sid)
    /\ UNCHANGED <<closing, closed, max_concurrent_streams, highest_outbound_stream_id, streams, window,
                   peer_initial_window, outq, please_write, reader_pc, writer_pc,
                   exit_pc, clock, reads, terminated>>

\* the caller's task is cancelled while post waits: CancelledError leaves through
\* the finally of lines 236-237
PostCancel(p) ==
    /\ post[p].pc = "waiting"
    /\ post' = Finish(p, "Cancelled")
    /\ channels' = Remove(channels, post[p].sid)
    /\ UNCHANGED <<closing, closed, max_concurrent_streams, highest_outbound_stream_id, streams, window,
                   peer_initial_window, outq, please_write, reader_pc, writer_pc,
                   exit_pc, clock, reads, terminated>>

\* ------------------------------------------------------------------ reader
\* the events the peer's frames can make the codec produce
StreamEvents(sid) ==
    {Event("ResponseReceived", sid, 200, 0), Event("StreamEnded", sid, 0, 0),
     Event("StreamReset", sid, 8, 0)}
    \cup {Event("DataReceived", sid, t, 0) : t \in Tokens}

\* connection-scoped events: no stream_id attribute, so sid is 0.  A settings
\* event carries the changed MAX_CONCURRENT_STREAMS (val) and
\* INITIAL_WINDOW_SIZE (aux), -1 when the setting did not change
ConnectionEvents ==
    {Event("RemoteSettingsChanged", 0, m, -1) : m \in PeerMaxStreams}
    \cup {Event("RemoteSettingsChanged", 0, -1, w) : w \in PeerInitialWindows}
    \cup {Event("WindowUpdated", 0, WindowIncrement, 0),
          Event("ConnectionTerminated", 0, 0, 0)}

EventPool == ConnectionEvents \cup UNION {StreamEvents(sid) : sid \in DOMAIN streams}

\* conn.receive_data: the codec's own state after the frame behind event e; ok
\* turns FALSE when the frame is one the peer cannot send in that state, or
\* one h2 answers with ProtocolError instead of an event: on a connection it
\* holds for closed that is every frame but a GOAWAY (see ReaderFail)
Feed(cs, e) ==
    IF cs.terminated /\ e.type # "ConnectionTerminated" THEN [cs EXCEPT !.ok = FALSE]
    ELSE IF e.type = "RemoteSettingsChanged" THEN
        IF e.aux = -1 THEN cs ELSE [cs EXCEPT !.peer_initial_window = e.aux]
    ELSE IF e.type = "WindowUpdated" THEN
        IF cs.window + e.val <= WindowCap
        THEN [cs EXCEPT !.window = @ + e.val] ELSE [cs EXCEPT !.ok = FALSE]
    ELSE IF e.type = "ConnectionTerminated" THEN [cs EXCEPT !.terminated = TRUE]
    ELSE LET st == cs.streams[e.sid] IN
         IF ~StreamOpen(st) \/ st.rcv = "ended" THEN [cs EXCEPT !.ok = FALSE]
         ELSE IF e.type = "ResponseReceived" THEN
             IF st.rcv = "none" THEN [cs EXCEPT !.streams[e.sid].rcv = "headers"]
             ELSE [cs EXCEPT !.ok = FALSE]
         ELSE IF e.type = "DataReceived" THEN
             IF st.rcv = "headers" /\ st.ndata < MaxData
             THEN [cs EXCEPT !.streams[e.sid].ndata = @ + 1] ELSE [cs EXCEPT !.ok = FALSE]
         ELSE IF e.type = "StreamEnded" THEN
             IF st.rcv = "headers" THEN [cs EXCEPT !.streams[e.sid].rcv = "ended"]
             ELSE [cs EXCEPT !.ok = FALSE]
         ELSE [cs EXCEPT !.streams[e.sid].rcv = "reset"]

RECURSIVE FeedAll(_, _)
FeedAll(cs, evs) ==
    IF evs = <<>> \/ ~cs.ok THEN cs ELSE FeedAll(Feed(cs, Head(evs)), Tail(evs))

\* getattr(event, "error_code", None) is not None
HasErrorCode(e) == e.type \in {"StreamReset", "ConnectionTerminated"}

DispatchAnyError(st, e) ==
    IF st.dead THEN st
    ELSE LET m == IF e.type = "RemoteSettingsChanged" /\ e.val # -1
                  THEN e.val ELSE st.max_concurrent_streams
         IN
         IF e.sid \in DOMAIN st.channels THEN
             LET ch == st.channels[e.sid]
                 appended == [st.channels EXCEPT ![e.sid].ev = Append(@, e)]
             IN
             IF ch.fut = "none" THEN
                 [st EXCEPT !.channels = appended, !.dead = TRUE]
             ELSE IF ch.fut = "pending" THEN
                 [st EXCEPT !.channels = [appended EXCEPT ![e.sid].fut = "result"]]
             ELSE [st EXCEPT !.channels = appended]
         ELSE IF HasErrorCode(e) THEN
             [st EXCEPT !.max_concurrent_streams = m, !.closing = TRUE]
         ELSE [st EXCEPT !.max_concurrent_streams = m]

\* lines 148-179 for one event; dead once line 160 raised on a record whose
\* waiter is still None
Dispatch(st, e) ==
    IF st.dead THEN st
    ELSE LET m == IF e.type = "RemoteSettingsChanged" /\ e.val # -1
                  THEN e.val ELSE st.max_concurrent_streams
         IN
         IF e.sid \in DOMAIN st.channels THEN
             LET ch == st.channels[e.sid]
                 appended == [st.channels EXCEPT ![e.sid].ev = Append(@, e)]
             IN
             IF ch.fut = "none" THEN
                 [st EXCEPT !.channels = appended, !.dead = TRUE]
             ELSE IF ch.fut = "pending" THEN
                 [st EXCEPT !.channels = [appended EXCEPT ![e.sid].fut = "result"]]
             ELSE [st EXCEPT !.channels = appended]
         ELSE IF e.sid = 0 /\ HasErrorCode(e) THEN
             [st EXCEPT !.max_concurrent_streams = m, !.closing = TRUE]
         ELSE [st EXCEPT !.max_concurrent_streams = m]

RECURSIVE DispatchAll(_, _)
DispatchAll(st, evs) ==
    IF evs = <<>> THEN st ELSE DispatchAll(Dispatch(st, Head(evs)), Tail(evs))

\* the codec's own state, as receive_data finds it
Codec == [streams |-> streams, window |-> window,
          peer_initial_window |-> peer_initial_window,
          terminated |-> terminated, ok |-> TRUE]

\* what one read() that returns bytes can carry: up to MaxChunk events, those
\* the codec can produce in its state (ReaderChunk keeps only these)
Chunks == UNION {[1..n -> EventPool] : n \in 1..MaxChunk}

\* lines 139-181: one read() that returned bytes, the codec's events for them
\* dispatched one by one, then the writer woken
ReaderChunk(evs) ==
    /\ reader_pc = "reading"
    /\ reads < MaxReads
    /\ reads' = reads + 1
    /\ LET cs == FeedAll(Codec, evs)
           st == DispatchAll([channels |-> channels, closing |-> closing,
                              max_concurrent_streams |-> max_concurrent_streams,
                              dead |-> FALSE], evs)
       IN
       /\ cs.ok
       /\ streams' = cs.streams
       /\ window' = cs.window
       /\ peer_initial_window' = cs.peer_initial_window
       /\ terminated' = cs.terminated
       /\ channels' = st.channels
       /\ closing' = st.closing
       /\ max_concurrent_streams' = st.max_concurrent_streams
       /\ reader_pc' = IF st.dead THEN "dead" ELSE "reading"
       /\ please_write' = IF st.dead THEN please_write ELSE TRUE
    /\ UNCHANGED <<closed, highest_outbound_stream_id, outq, writer_pc, exit_pc, clock, post>>

FailWaitersNone(chs) == chs

\* set_exception(Closed()) on every waiter that is not done (lines 126-128, 142-144)
FailWaiters(chs) ==
    [s \in DOMAIN chs |-> IF chs[s].fut = "pending"
                          THEN [chs[s] EXCEPT !.fut = "exception"] ELSE chs[s]]

ReaderEOFClosedOnly ==
    /\ reader_pc = "reading"
    /\ closed' = TRUE
    /\ channels' = FailWaiters(channels)
    /\ reader_pc' = "returned"
    /\ UNCHANGED <<closing, max_concurrent_streams, highest_outbound_stream_id, streams,
                   window, peer_initial_window, outq, please_write, writer_pc, exit_pc,
                   clock, reads, post, terminated>>

\* lines 140-145: read() returned no bytes, the peer closed the connection
ReaderEOF ==
    /\ reader_pc = "reading"
    /\ closing' = TRUE
    /\ closed' = TRUE
    /\ channels' = FailWaiters(channels)
    /\ reader_pc' = "returned"
    /\ UNCHANGED <<max_concurrent_streams, highest_outbound_stream_id, streams, window, peer_initial_window,
                   outq, please_write, writer_pc, exit_pc, clock, reads, post, terminated>>

\* lines 189-191: read() raised, or receive_data did on a frame that breaks the
\* protocol, after which h2 holds the connection for closed; the exception is
\* logged
ReaderFail ==
    /\ reader_pc = "reading"
    /\ reader_pc' = "dead"
    /\ terminated' \in {terminated, TRUE}
    /\ UNCHANGED <<closing, closed, max_concurrent_streams, channels, highest_outbound_stream_id, streams,
                   window, peer_initial_window, outq, please_write, writer_pc, exit_pc,
                   clock, reads, post>>

\* ------------------------------------------------------------------ writer
\* lines 242-254, from one suspension of the writer to the next: after the
\* wait() the signal is cleared; then either the connection is closed and the
\* task returns, or the codec's bytes are written and drain() awaited, or
\* (nothing to send) the signal is cleared and waited for
WriterRun ==
    /\ writer_pc = "draining" \/ (writer_pc = "waiting" /\ please_write)
    /\ LET signal == IF writer_pc = "waiting" THEN FALSE ELSE please_write IN
       IF closed THEN
           /\ writer_pc' = "returned"
           /\ please_write' = signal
           /\ UNCHANGED outq
       ELSE IF outq # <<>> THEN
           /\ writer_pc' = "draining"
           /\ outq' = <<>>
           /\ please_write' = signal
       ELSE
           /\ writer_pc' = "waiting"
           /\ please_write' = FALSE
           /\ UNCHANGED outq
    /\ UNCHANGED <<closing, closed, max_concurrent_streams, channels, highest_outbound_stream_id, streams,
                   window, peer_initial_window, reader_pc, exit_pc, clock, reads, post, terminated>>

\* lines 256-258: write() or drain() raised; the exception is logged
WriterFail ==
    /\ writer_pc = "draining"
    /\ writer_pc' = "dead"
    /\ UNCHANGED <<closing, closed, max_concurrent_streams, channels, highest_outbound_stream_id, streams,
                   window, peer_initial_window, outq, please_write, reader_pc, exit_pc,
                   clock, reads, post, terminated>>

\* ------------------------------------------------------------------ __aexit__
WriterFinished == writer_pc \in {"returned", "dead", "cancelled"}
ReaderFinished == reader_pc \in {"returned", "dead", "cancelled"}

\* lines 120-132 from bgr.cancel() on: awaiting a finished task does not
\* suspend, so with the reader already finished the waiters are failed and the
\* transport closed in the same step
ExitStopReader ==
    IF ReaderFinished THEN
        /\ channels' = FailWaiters(channels)
        /\ exit_pc' = "await_closed"
        /\ UNCHANGED reader_pc
    ELSE
        /\ reader_pc' = "cancelled"
        /\ exit_pc' = "await_bgr"
        /\ UNCHANGED channels

\* lines 105-118: the owning scope ends (normally, on an exception or on
\* cancellation: exc_type only chooses a log line)
ExitBegin ==
    /\ exit_pc = "open"
    /\ closing' = TRUE
    /\ IF WriterFinished THEN
           /\ ExitStopReader
           /\ UNCHANGED writer_pc
       ELSE
           /\ writer_pc' = "cancelled"
           /\ exit_pc' = "await_bgw"
           /\ UNCHANGED <<reader_pc, channels>>
    /\ UNCHANGED <<closed, max_concurrent_streams, highest_outbound_stream_id, streams, window,
                   peer_initial_window, outq, please_write, clock, reads, post, terminated>>

\* lines 118-123: the cancelled writer has ended
ExitAfterWriter ==
    /\ exit_pc = "await_bgw"
    /\ ExitStopReader
    /\ UNCHANGED <<closing, closed, max_concurrent_streams, highest_outbound_stream_id, streams, window,
                   peer_initial_window, outq, please_write, writer_pc, clock, reads, post, terminated>>

\* lines 123-132: the cancelled reader has ended; waiters failed, transport closed
ExitAfterReader ==
    /\ exit_pc = "await_bgr"
    /\ channels' = FailWaiters(channels)
    /\ exit_pc' = "await_closed"
    /\ UNCHANGED <<closing, closed, max_concurrent_streams, highest_outbound_stream_id, streams, window,
                   peer_initial_window, outq, please_write, reader_pc, writer_pc, clock, reads,
                   post, terminated>>

ExitFinishLeavesOpen ==
    /\ exit_pc = "await_closed"
    /\ exit_pc' = "done"
    /\ UNCHANGED <<closing, closed, max_concurrent_streams, channels, highest_outbound_stream_id, streams,
                   window, peer_initial_window, outq, please_write, reader_pc, writer_pc,
                   clock, reads, post, terminated>>

\* lines 132-134: wait_closed() returned or raised; the finally sets closed
ExitFinish ==
    /\ exit_pc = "await_closed"
    /\ closed' = TRUE
    /\ exit_pc' = "done"
    /\ UNCHANGED <<closing, max_concurrent_streams, channels, highest_outbound_stream_id, streams, window,
                   peer_initial_window, outq, please_write, reader_pc, writer_pc, clock, reads,
                   post, terminated>>

\* ------------------------------------------------------------------ time
Tick ==
    /\ clock < MaxTime
    /\ clock' = clock + 1
    /\ UNCHANGED <<reads, closing, closed, max_concurrent_streams, channels, highest_outbound_stream_id, streams,
                   window, peer_initial_window, outq, please_write, reader_pc, writer_pc,
                   exit_pc, post, terminated>>

Next ==
    \/ \E p \in Posts, d \in Deadlines, n \in BodyLens : PostCall(p, d, n)
    \/ \E p \in Posts : PostResume(p)
    \/ \E p \in Posts : PostTimeout(p)
    \/ \E p \in Posts : PostCancel(p)
    \/ \E evs \in Chunks : ReaderChunk(evs)
    \/ ReaderEOF
    \/ ReaderFail
    \/ WriterRun
    \/ WriterFail
    \/ ExitBegin
    \/ ExitAfterWriter
    \/ ExitAfterReader
    \/ ExitFinish
    \/ Tick

Spec == Init /\ [][Next]_vars

\* The event loop resumes every task that can run, and time passes; what the
\* peer sends, when callers call or cancel and when the scope ends is not
\* promised.
Fairness ==
    /\ \A p \in Posts : WF_vars(PostResume(p)) /\ WF_vars(PostTimeout(p))
    /\ WF_vars(WriterRun)
    /\ WF_vars(ExitAfterWriter)
    /\ WF_vars(ExitAfterReader)
    /\ WF_vars(ExitFinish)
    /\ WF_vars(Tick)

FairSpec == Spec /\ Fairness

\* ==================================================================
\* Properties
\* ==================================================================
Waiting(p) == post[p].pc = "waiting"
\* the waiter and the event buffer of a waiting post's record
Fut(p) == channels[post[p].sid].fut
Ev(p) == channels[post[p].sid].ev
\* post p is called in this step
Called(p) == post[p].pc = "idle" /\ post'[p].pc # "idle"
\* post p ends in this step
Ends(p) == post[p].pc = "waiting" /\ post'[p].pc = "done"
\* the call changed nothing of the connection: no stream identifier taken, no
\* record added, nothing queued in the codec
NothingAllocated ==
    /\ highest_outbound_stream_id' = highest_outbound_stream_id
    /\ channels' = channels
    /\ streams' = streams
    /\ outq' = outq
    /\ window' = window

\* C1: a post called while the connection is blocked (closing, closed, window
\* at or below REQUIRED_FREE_SPACE, or as many open outbound streams as
\* max_concurrent_streams) and before its deadline has passed fails with
\* Blocked, and allocates and queues nothing.
C1_BlockedPostChangesNothing ==
    [][\A p \in Posts :
         (/\ Called(p)
          /\ \/ closing
             \/ closed
             \/ window <= REQUIRED_FREE_SPACE
             \/ open_outbound_streams >= max_concurrent_streams
          /\ clock <= post'[p].deadline)
         => (post'[p].pc = "done" /\ post'[p].outcome = "Blocked" /\ NothingAllocated)]_vars

\* a post was refused because of the window alone
C1_Witness ==
    \E p \in Posts :
        /\ post[p].outcome = "Blocked"
        /\ post[p].sid = 0
        /\ window <= REQUIRED_FREE_SPACE
        /\ ~closing /\ ~closed
        /\ open_outbound_streams < max_concurrent_streams

\* C2 as stated: a post whose deadline is at or before the current time
\* (deadline = now included) fails with Timeout before anything is allocated
\* or queued.
C2_Original ==
    [][\A p \in Posts :
         (Called(p) /\ post'[p].deadline <= clock)
         => (post'[p].outcome = "Timeout" /\ NothingAllocated)]_vars

\* C2 amended: a post whose deadline is strictly before the current time
\* fails with Timeout before anything is allocated or queued, blocked or not.
C2_Amended ==
    [][\A p \in Posts :
         (Called(p) /\ post'[p].deadline < clock)
         => (post'[p].pc = "done" /\ post'[p].outcome = "Timeout" /\ NothingAllocated)]_vars

\* a post failed Timeout at the first test, without a stream
C2_Witness ==
    \E p \in Posts : post[p].outcome = "Timeout" /\ post[p].sid = 0 /\ post[p].deadline < clock

\* C3: every record of the stream table belongs to a post call in progress
\* (so with no post in progress the table is empty).
C3_Original ==
    \A sid \in DOMAIN channels : \E p \in Posts : Waiting(p) /\ post[p].sid = sid

\* C4: the body a Response is built from is the concatenation, in order, of the
\* data of the stream's DataReceived events, each counted once.
C4_Original ==
    \A p \in Posts : post[p].outcome = "Response" => post[p].body = post[p].delivered

\* read() has returned no bytes: the only way the reader returns
PeerClosed == reader_pc = "returned"
HasStreamEnded(evs) == \E i \in 1..Len(evs) : evs[i].type = "StreamEnded"
HasStreamReset(evs) == \E i \in 1..Len(evs) : evs[i].type = "StreamReset"
NoPostWaits == \A p \in Posts : ~Waiting(p)
\* post p, waiting now, is waiting on a pending waiter after this step
WaitsAgain(p) == post'[p].pc = "waiting" /\ channels'[post[p].sid].fut = "pending"

\* C5 as stated: every post outstanding when the peer closes the connection,
\* also one whose waiter was already completed, fails with Closed (a post its
\* own caller cancels aside).
C5_Original ==
    [][\A p \in Posts :
         (PeerClosed /\ Ends(p) /\ post'[p].outcome # "Cancelled")
         => post'[p].outcome = "Closed"]_vars

\* what C5 (amended) asks of every step: see C5_Amended
C5_Step ==
    /\ (reader_pc = "reading" /\ reader_pc' = "returned") =>
          /\ closing' /\ closed'
          /\ \A p \in Posts : Waiting(p) =>
                /\ Waiting(p)'
                /\ Fut(p)' = IF Fut(p) = "pending" THEN "exception" ELSE Fut(p)
    /\ \A p \in Posts : (PeerClosed /\ Waiting(p)) =>
          /\ Fut(p) # "pending"
          /\ ~WaitsAgain(p)
          /\ (Ends(p) /\ post'[p].outcome # "Cancelled") =>
                post'[p].outcome =
                    IF Fut(p) = "exception" THEN "Closed"
                    ELSE IF clock > post[p].deadline THEN "Timeout"
                    ELSE IF HasStreamEnded(Ev(p)) THEN ResponseOutcome(post'[p].body)
                    ELSE "Closed"

\* C5 amended: when the peer closes the connection, closing and closed are
\* set and every waiter still pending is failed, so its post fails with
\* Closed; a post whose waiter was already completed ends at its resumption
\* with Timeout if its deadline has passed, else with its Response (or
\* FormatError) if StreamEnded is in its buffer, else with Closed; a caller may
\* still cancel its post first.  No post waits on a pending waiter afterwards,
\* none waits again, and every one of them ends.
C5_Amended == [][C5_Step]_vars /\ (PeerClosed ~> NoPostWaits)

\* the peer closed the connection under a post whose waiter was pending, and
\* the post has not resumed yet
C5_Witness == PeerClosed /\ \E p \in Posts : Waiting(p) /\ Fut(p) = "exception"

\* C6: a post that wakes up with a StreamReset in its buffer does not go back
\* to waiting.
C6_Original ==
    [][\A p \in Posts :
         (Waiting(p) /\ Fut(p) = "result" /\ HasStreamReset(Ev(p))) => ~WaitsAgain(p)]_vars

\* C7: once the reader task has failed, the connection is closed and no post
\* waits on a pending waiter.
C7_Original ==
    reader_pc = "dead" => (closed /\ \A p \in Posts : Waiting(p) => Fut(p) # "pending")

\* C8 as stated: in every reachable state the number of open outbound streams
\* is at most max_concurrent_streams.
C8_Original == open_outbound_streams <= max_concurrent_streams

\* C8 amended: post opens a stream only while fewer than max_concurrent_streams
\* are open, test and allocation being one step, so the count is within the
\* limit after every allocation; it exceeds the limit only once the peer has
\* lowered MAX_CONCURRENT_STREAMS below the number of streams already open.
C8_Amended ==
    [][/\ open_outbound_streams' > open_outbound_streams =>
             /\ open_outbound_streams < max_concurrent_streams
             /\ open_outbound_streams' <= max_concurrent_streams'
       /\ (open_outbound_streams <= max_concurrent_streams
           /\ open_outbound_streams' > max_concurrent_streams') =>
             /\ max_concurrent_streams' < max_concurrent_streams
             /\ open_outbound_streams' <= open_outbound_streams]_vars

\* the limit is reached and a post was refused for that reason alone
C8_Witness ==
    /\ open_outbound_streams = max_concurrent_streams
    /\ \E p \in Posts : Waiting(p)
    /\ \E p \in Posts :
          /\ post[p].outcome = "Blocked"
          /\ ~closing /\ ~closed
          /\ window > REQUIRED_FREE_SPACE

\* the scope's exit has begun
Exiting == exit_pc # "open"

\* C9 as stated: every post outstanding when the scope's exit starts observes
\* Closed (a post its own caller cancels aside).
C9_Original ==
    [][\A p \in Posts :
         (Exiting /\ Ends(p) /\ post'[p].outcome # "Cancelled")
         => post'[p].outcome = "Closed"]_vars

\* what C9 (amended) asks of every state during and after the exit
C9_Inv ==
    /\ Exiting => closing
    /\ exit_pc \in {"await_bgr", "await_closed", "done"} => WriterFinished
    /\ exit_pc \in {"await_closed", "done"} =>
          /\ ReaderFinished
          /\ \A p \in Posts : Waiting(p) => Fut(p) # "pending"
    /\ exit_pc = "done" => closed

\* what C9 (amended) asks of every step of a post outstanding during the exit
C9_Step ==
    \A p \in Posts : (Exiting /\ Waiting(p)) =>
        /\ Fut(p) # "pending" => ~WaitsAgain(p)
        /\ (Ends(p) /\ post'[p].outcome # "Cancelled") =>
              post'[p].outcome =
                  IF Fut(p) = "exception" THEN "Closed"
                  ELSE IF clock > post[p].deadline THEN "Timeout"
                  ELSE IF HasStreamEnded(Ev(p)) THEN ResponseOutcome(post'[p].body)
                  ELSE "Closed"

\* C9 amended: the scope's exit sets closing first, then stops the writer, then
\* the reader, then fails every waiter still pending with Closed, and ends with
\* closed set.  A post outstanding during the exit never waits again once it
\* has woken; it ends with Closed if the exit failed its waiter, with Timeout
\* if its deadline has passed, with its Response (or FormatError) if StreamEnded
\* reached its buffer before it resumed, and with Closed otherwise; a caller
\* may still cancel it first.  The exit completes and every such post ends.
C9_Amended ==
    /\ []C9_Inv
    /\ [][C9_Step]_vars
    /\ (Exiting ~> (exit_pc = "done" /\ NoPostWaits))

\* the exit cancelled the reader and then failed the pending waiter of a post
\* that has not resumed yet
C9_Witness ==
    /\ exit_pc \in {"await_closed", "done"}
    /\ reader_pc = "cancelled"
    /\ \E p \in Posts : Waiting(p) /\ Fut(p) = "exception"

\* C10: after the reader received a GOAWAY no in-flight post hangs: every post
\* that is waiting ends (left aside the runs in which the reader task itself
\* ends, by end of stream, failure or cancellation).
C10_Original == [](terminated => <>(NoPostWaits \/ ReaderFinished))

\* what the reader's dispatch loop works on, as the next read() finds it
ReaderState == [channels |-> channels, closing |-> closing,
                max_concurrent_streams |-> max_concurrent_streams, dead |-> FALSE]
\* post p took a stream and ended by its deadline or by cancellation
Abandoned(p) == post[p].outcome \in {"Timeout", "Cancelled"} /\ post[p].sid # 0

\* C11: the stream of a post that timed out or was cancelled while in flight is
\* not in the stream table, and the reader drops every event the peer can
\* still send for it: no record (buffer, waiter, header, body) changes, no
\* waiter is completed, closing and max_concurrent_streams stay as they are
\* (closed is not touched by the dispatch at all).
C11_LateEventsDropped ==
    \A p \in Posts : Abandoned(p) =>
        /\ post[p].sid \notin DOMAIN channels
        /\ \A e \in StreamEvents(post[p].sid) : Dispatch(ReaderState, e) = ReaderState

\* a post gave up on its stream after the peer's response headers, more events
\* for that stream can arrive, and another post waits on a pending waiter
C11_Witness ==
    \E p, q \in Posts :
        /\ Abandoned(p)
        /\ streams[post[p].sid].rcv = "headers"
        /\ \E e \in StreamEvents(post[p].sid) : Feed(Codec, e).ok
        /\ Waiting(q) /\ Fut(q) = "pending"

FiniteDeadline(p) == post[p].deadline < Inf

\* C12 as stated: a post that wakes up after its deadline fails with Timeout
\* (a post its own caller cancels aside).
C12_Original ==
    [][\A p \in Posts :
         (Waiting(p) /\ clock > post[p].deadline /\ Ends(p) /\ post'[p].outcome # "Cancelled")
         => post'[p].outcome = "Timeout"]_vars

\* what C12 (amended) asks of every step of a waiting post
C12_Step ==
    \A p \in Posts : Waiting(p) =>
        /\ Ends(p) => post[p].sid \notin DOMAIN channels'
        /\ (Ends(p) /\ post'[p].outcome = "Timeout") => clock > post[p].deadline
        /\ clock > post[p].deadline =>
              /\ Fut(p) # "pending" => ~WaitsAgain(p)
              /\ (Ends(p) /\ post'[p].outcome # "Cancelled") =>
                    post'[p].outcome = IF Fut(p) = "exception" THEN "Closed" ELSE "Timeout"

\* C12 amended: every waiting post with a finite deadline ends, whatever the
\* peer sends or withholds.  At its first wake-up strictly after the deadline
\* it does not wait again: it fails with Timeout, also when its response is
\* complete in the buffer, unless the connection's end (the peer's end of
\* stream or the scope's exit) has failed its waiter, when it fails with
\* Closed; its caller may cancel it first.  Timeout is raised only after the
\* deadline, and in every case the stream record is removed.  (A post is
\* called once, so "again and again no post with a finite deadline is waiting"
\* says that each of them ends.)
C12_Amended ==
    /\ [][C12_Step]_vars
    /\ []<>(\A p \in Posts : ~(Waiting(p) /\ FiniteDeadline(p)))

\* a post timed out on a stream for which the peer sent headers and no more
C12_Witness ==
    \E p \in Posts :
        /\ post[p].outcome = "Timeout"
        /\ post[p].sid \in DOMAIN streams
        /\ post[p].sid \notin DOMAIN channels
        /\ streams[post[p].sid].rcv = "headers"
        /\ streams[post[p].sid].ndata = 0
        /\ ~closing

\* C13: once the writer task has failed, the connection gets closed (closed
\* true, so posts are refused) and no post is left waiting.
C13_Original == [](writer_pc = "dead" => <>(closed /\ NoPostWaits))

\* C14: closing and closed are monotone (no step turns either back to false)
\* and closed implies closing in every reachable state, so the connection only
\* moves Open -> Closing -> Closed, or Open -> Closed, never backwards.
C14_FlagsMonotone ==
    /\ [](closed => closing)
    /\ [][(closing => closing') /\ (closed => closed')]_vars

\* the peer's GOAWAY moved the connection to Closing, the scope's exit later
\* to Closed
C14_Witness == terminated /\ closing /\ closed /\ exit_pc = "done" /\ reader_pc = "cancelled"

\* no record of the table has a waiter that is armed and not completed
NoPendingWaiter == \A sid \in DOMAIN channels : channels[sid].fut # "pending"

C15_Step ==
    closed =>
        /\ highest_outbound_stream_id' = highest_outbound_stream_id
        /\ DOMAIN channels' \subseteq DOMAIN channels
        /\ NoPendingWaiter'
        /\ \A p \in Posts :
              /\ Called(p) => (post'[p].outcome \in {"Timeout", "Blocked"} /\ NothingAllocated)
              /\ Waiting(p) => ~WaitsAgain(p)
              /\ Ends(p) =>
                    /\ post[p].sid \notin DOMAIN channels'
                    /\ post'[p].outcome # "Cancelled" =>
                          post'[p].outcome =
                              IF Fut(p) = "exception" THEN "Closed"
                              ELSE IF clock > post[p].deadline THEN "Timeout"
                              ELSE IF HasStreamEnded(Ev(p)) THEN ResponseOutcome(post'[p].body)
                              ELSE "Closed"

Admitted(p) == Called(p) /\ post'[p].outcome \notin {"Timeout", "Blocked"}

\* C16: whenever a post passes the blocked test the connection window is
\* strictly greater than the largest body (hence than the body it sends), so
\* the window never goes negative, whatever posts and WINDOW_UPDATEs came
\* before, and send_data refuses an admitted body only for the stream's window
\* (the peer's initial window size), never for the connection's.
C16_WindowSuffices ==
    /\ [](window >= 0)
    /\ [][\A p \in Posts : Admitted(p) =>
            /\ window > MAX_NOTIFICATION_PAYLOAD_SIZE
            /\ window' >= 0
            /\ post'[p].outcome = "Error" =>
                  peer_initial_window < MAX_NOTIFICATION_PAYLOAD_SIZE]_vars

\* every caller's post was admitted and its body sent, a WINDOW_UPDATE of the
\* peer in between, and the window is now below the reserve
C16_Witness ==
    /\ window <= REQUIRED_FREE_SPACE
    /\ \A p \in Posts : post[p].sid # 0 /\ post[p].outcome # "Error"

\* C17: a post that gets past the deadline and blocked tests when the codec has
\* no stream identifier left fails with Closed, adds no record, and leaves the
\* connection closing (so that later posts are refused with Blocked).
C17_Original ==
    [][\A p \in Posts : (Admitted(p) /\ NoAvailableStreamID) =>
         /\ post'[p].outcome = "Closed"
         /\ channels' = channels
         /\ closing']_vars

\* C18: while the connection is closing only because of a connection-scoped
\* event with an error code (not closed, the scope not exiting), a post in
\* flight may still drain: woken by a part of its response before its
\* deadline, it does not fail with Closed.
C18_Original ==
    [][\A p \in Posts :
         (Ends(p) /\ Fut(p) = "result" /\ ~closed /\ exit_pc = "open"
                  /\ clock <= post[p].deadline)
         => post'[p].outcome # "Closed"]_vars

\* the writer is suspended in please_write.wait() and the signal is clear
WriterAsleep == writer_pc = "waiting" /\ ~please_write

\* C19: no wake-up of the writer is lost: the writer is never suspended on a
\* cleared signal while the codec holds bytes to send.
C19_Original == WriterAsleep => outq = <<>>

\* the only frames of post ever left behind a sleeping writer are those of a
\* post that failed in send_data, after send_headers and before
\* please_write.set()
WriterAsleepOnlyAfterFailedSend ==
    (WriterAsleep /\ outq # <<>>) => \E p \in Posts : post[p].outcome = "Error"

\* C20: the open-outbound-stream count that blocked uses goes down when post
\* removes its record: a post that ends with Timeout or is cancelled while its
\* stream counts as open gives the slot back, so that the count equals the
\* number of records in the table.
C20_Original ==
    [][\A p \in Posts :
         (Ends(p) /\ post'[p].outcome \in {"Timeout", "Cancelled"}
                  /\ StreamOpen(streams[post[p].sid]))
         => /\ ~StreamOpen(streams'[post[p].sid])
            /\ open_outbound_streams' = Cardinality(DOMAIN channels')]_vars

\* C21: the assertion of line 209 never fails: the identifier a post is given
\* is not in the stream table, identifiers of successive posts being pairwise
\* distinct, also after posts that timed out, were cancelled or failed while
\* emitting their headers.
C21_Original == \A p \in Posts : post[p].outcome # "AssertionError"

=============================================================================
